---- MODULE Spec2Model ----
(***************************************************************************)
(* Model of src/src/hw3.cpp: the serial line accumulator of loop(), the   *)
(* strtok/atoi tokenizer string_to_array, the arity check of              *)
(* process_input and the quantize -> Invoke -> dequantize -> clamp         *)
(* pipeline of measure_and_run_model.                                      *)
(*                                                                         *)
(* Bytes are their ASCII codes (13 = CR, 44 = ',', 48..57 = '0'..'9').     *)
(* A float scale is the exact rational num/den; the scales used are powers *)
(* of two, for which the float arithmetic of the code is exact on the      *)
(* small integers of the model.                                            *)
(***************************************************************************)
EXTENDS Integers, Sequences, FiniteSets, TLC

\* ---------------------------------------------------------------- constants
INPUT_BUFFER_SIZE == 64
INT_ARRAY_SIZE == 7
CR == 13

\* ------------------------------------------------------------------- bounds
\* Short lines: every byte string over FreeBytes up to this length.
MaxFreeLen == 1
\* The longest filler runs overshoot the buffer by 1..MaxOver bytes.
MaxOver == 2

VARIABLES
  pc,             \* "boot" before setup(), "loop" while loop() runs, "crashed"
  setup_result,   \* "none", "ok", "schema_mismatch", "alloc_failed"
  narrowing,      \* what the build does on an out-of-range float -> int8_t cast
  interpreter,    \* "null" or "static_interpreter"
  input_tensor,   \* NullTensor or the tensor record of interpreter->input(0)
  output_tensor,  \* NullTensor or the tensor record of interpreter->output(0)
  in_str_buff,    \* [0..63 -> byte]
  input_array,    \* [0..6 -> Int]
  in_buff_idx,    \* write cursor
  rx,             \* bytes waiting in the serial receive queue
  sent,           \* "start", then what the peer sent since its last CR
  sinceCR,        \* bytes read since the last carriage return (history)
  stored_at,      \* index the last byte read was stored at, -1 at start (history)
  ev,             \* what the last loop() iteration that read a byte did
  out,            \* the lines that iteration wrote to Serial, in order
  req             \* record of the request that iteration ran (history)

vars == <<pc, setup_result, narrowing, interpreter, input_tensor, output_tensor,
          in_str_buff, input_array, in_buff_idx, rx, sent, sinceCR, stored_at,
          ev, out, req>>

\* ------------------------------------------------------------- C strings
Min(a, b) == IF a <= b THEN a ELSE b

ZeroBuff == [i \in 0..(INPUT_BUFFER_SIZE - 1) |-> 0]
ZeroArray == [i \in 0..(INT_ARRAY_SIZE - 1) |-> 0]

\* TRUE when some byte of the buffer is the string terminator.
HasNul(buff) == \E i \in 0..(INPUT_BUFFER_SIZE - 1) : buff[i] = 0

\* Index of the first NUL of the buffer (INPUT_BUFFER_SIZE when there is none).
FirstNul(buff) ==
  IF HasNul(buff)
  THEN CHOOSE i \in 0..(INPUT_BUFFER_SIZE - 1) :
         buff[i] = 0 /\ \A j \in 0..(i - 1) : buff[j] # 0
  ELSE INPUT_BUFFER_SIZE

\* What may lie right behind in_str_buff in memory, up to its first NUL: the
\* scan of strtok runs into it when the buffer holds no NUL.
AdjacentMemory == { <<>>, <<49>>, <<44, 49>> }

\* The bytes strtok and atoi see when handed in_str_buff: the buffer up to
\* its first NUL; without one the scan goes on into the memory behind it.
CString(buff, adjacent) ==
  LET n == FirstNul(buff)
      inside == [k \in 1..n |-> buff[k - 1]]
  IN  IF n < INPUT_BUFFER_SIZE THEN inside ELSE inside \o adjacent

\* memset that leaves the last byte.
memset_OffByOne(buff, n) == [i \in DOMAIN buff |-> IF i < n - 1 THEN 0 ELSE buff[i]]

\* memset(buff, 0, n)
memset(buff, n) == [i \in DOMAIN buff |-> IF i < n THEN 0 ELSE buff[i]]

\* ---------------------------------------------------------------- atoi
IsSpace(c) == c \in {32, 9, 10, 11, 12, 13}
IsDigit(c) == c \in 48..57

RECURSIVE SkipSpace(_, _)
SkipSpace(t, i) ==
  IF i <= Len(t) /\ IsSpace(t[i]) THEN SkipSpace(t, i + 1) ELSE i

RECURSIVE AtoiDigits(_, _, _)
AtoiDigits(t, i, acc) ==
  IF i <= Len(t) /\ IsDigit(t[i])
  THEN AtoiDigits(t, i + 1, acc * 10 + (t[i] - 48))
  ELSE acc

\* atoi that does not know the sign.
atoi_NoSign(t) == AtoiDigits(t, SkipSpace(t, 1), 0)

\* atoi: leading white space, an optional sign, then the decimal digits up to
\* the first other byte; 0 when there is no digit.  (The lines of the model
\* carry at most three significant digits, so int never overflows.)
atoi(t) ==
  LET i == SkipSpace(t, 1)
      signed == i <= Len(t) /\ t[i] \in {43, 45}
      neg == i <= Len(t) /\ t[i] = 45
      v == AtoiDigits(t, IF signed THEN i + 1 ELSE i, 0)
  IN  IF neg THEN 0 - v ELSE v

\* ---------------------------------------------------------------- strtok
RECURSIVE SkipDelims(_, _)
SkipDelims(s, p) ==
  IF p <= Len(s) /\ s[p] = 44 THEN SkipDelims(s, p + 1) ELSE p

RECURSIVE TokenEnd(_, _)
TokenEnd(s, p) ==
  IF p <= Len(s) /\ s[p] # 44 THEN TokenEnd(s, p + 1) ELSE p

\* strtok(.., ",") resumed at position p of the string s: skips the commas in
\* front, returns the bytes up to the next comma or the end, and where the
\* next call resumes; found is FALSE for the NULL result.
strtok(s, p) ==
  LET b == SkipDelims(s, p)
      e == TokenEnd(s, b)
  IN  IF b > Len(s)
      THEN [found |-> FALSE, token |-> <<>>, next |-> b]
      ELSE [found |-> TRUE, token |-> SubSeq(s, b, e - 1), next |-> e + 1]

RECURSIVE TokenLoop_BreakBeforeStore(_, _, _, _)
\* The loop with the bound tested before the store of the 7th value.
TokenLoop_BreakBeforeStore(s, tk, num_integers, int_array) ==
  IF ~tk.found
  THEN [num |-> num_integers, arr |-> int_array]
  ELSE IF num_integers + 1 >= INT_ARRAY_SIZE
  THEN [num |-> num_integers + 1, arr |-> int_array]
  ELSE TokenLoop_BreakBeforeStore(s, strtok(s, tk.next), num_integers + 1,
                                  [int_array EXCEPT ![num_integers] = atoi(tk.token)])

RECURSIVE TokenLoop_NoBreak(_, _, _, _)
\* The loop without the break of line 63.
TokenLoop_NoBreak(s, tk, num_integers, int_array) ==
  IF ~tk.found
  THEN [num |-> num_integers, arr |-> int_array]
  ELSE TokenLoop_NoBreak(s, strtok(s, tk.next), num_integers + 1,
                         IF num_integers \in DOMAIN int_array
                         THEN [int_array EXCEPT ![num_integers] = atoi(tk.token)]
                         ELSE int_array)

\* The while loop of string_to_array, entered with the last strtok result.
RECURSIVE TokenLoop(_, _, _, _)
TokenLoop(s, tk, num_integers, int_array) ==
  IF ~tk.found
  THEN [num |-> num_integers, arr |-> int_array]
  ELSE LET arr1 == [int_array EXCEPT ![num_integers] = atoi(tk.token)]
           n1 == num_integers + 1
           tk1 == strtok(s, tk.next)
       IN  IF n1 >= INT_ARRAY_SIZE
           THEN [num |-> n1, arr |-> arr1]
           ELSE TokenLoop(s, tk1, n1, arr1)

string_to_array(in_str, int_array) ==
  TokenLoop(in_str, strtok(in_str, 1), 0, int_array)

\* ------------------------------------------------------------ quantization
NullTensor == [type |-> "null"]

\* Quantization parameters of a tensor: scale = num / den (den a power of
\* two), zero_point.
Params(num, den, zp) == [num |-> num, den |-> den, zero_point |-> zp]

\* The (input, output) parameters the compiled model may carry.
ModelParams ==
  { <<Params(1, 32, 0), Params(2, 1, 0)>>,
    <<Params(1, 1, 1), Params(1, 2, 0 - 1)>> }

TensorTypes == {"kTfLiteInt8", "kTfLiteFloat32"}

\* What output_tensor->data.int8[0] may hold after a successful Invoke().
RawOutputs == {0 - 128, 0 - 5, 0 - 4, 100, 127}

\* C conversion of a quotient to an integer: toward zero.
TruncDiv(a, b) == IF a >= 0 THEN a \div b ELSE 0 - ((0 - a) \div b)

\* static_cast<int8_t> of a float whose truncated value is v.  Out of the
\* int8 range the cast is undefined: the build either keeps the low 8 bits of
\* the 32-bit conversion ("wrap") or saturates ("saturate").
Narrow(v, mode) ==
  IF v >= 0 - 128 /\ v <= 127 THEN v
  ELSE IF mode = "wrap" THEN ((v + 128) % 256) - 128
  ELSE IF v < 0 THEN 0 - 128 ELSE 127

\* Line 88: static_cast<int8_t>((input_array[i] - input_zero_point) / input_scale)
Quantize(x, p, mode) ==
  Narrow(TruncDiv((x - p.zero_point) * p.den, p.num), mode)

\* Line 103: predicted_float = (raw_prediction - output_zero_point) * output_scale,
\* as the fraction num / den.
Dequantize(raw, p) == [num |-> (raw - p.zero_point) * p.num, den |-> p.den]

\* The conversion to int without round(): toward zero.
Round_Truncate(f) == TruncDiv(f.num, f.den)

\* round(): half away from zero.
Round(f) ==
  IF f.num >= 0
  THEN (2 * f.num + f.den) \div (2 * f.den)
  ELSE 0 - ((2 * (0 - f.num) + f.den) \div (2 * f.den))

\* Lines 110-112.
PredictedInteger(f) ==
  LET r == Round(f)
  IN  IF r < 0 - 128 THEN 0 - 128 ELSE IF r > 127 THEN 127 ELSE r

\* ------------------------------------------------------------- the tensors
InputTensor(type, p, data) == [type |-> type, params |-> p, data |-> data]
OutputTensor(type, p) == [type |-> type, params |-> p]

\* input_tensor and output_tensor are dereferenced without a null check
\* (line 74).  Through a null pointer the read is undefined: it yields
\* whatever lies at that address, any type and parameters, or it faults.
TensorsSeen ==
  IF input_tensor # NullTensor
  THEN { <<input_tensor, output_tensor>> }
  ELSE { <<InputTensor(t, pp[1], ZeroArray), OutputTensor(t, pp[2])>> :
           t \in TensorTypes, pp \in ModelParams }

\* ------------------------------------------------------------- Serial output
Echo == "echo"
NewLine == "newline"
MsgRunning == "Running inference..."
MsgType == "Error: Expected int8 tensors!"
MsgInvoke == "Model inference failed!"
MsgRaw == "Raw dequantized prediction (float): "
MsgPredicted == "Predicted next integer value: "
MsgPrintTime == "Printing time (us): "
MsgInferTime == "Inference time (us): "
MsgArity == "Error: Please enter exactly 7 integers."

\* What each path of process_input and measure_and_run_model writes.
\* Lines 125-128.
ArityErrorLines == <<MsgArity>>
\* Type check that returns without its message.
TypeErrorLines_Silent == <<MsgRunning>>
\* Lines 70, 74-77.
TypeErrorLines == <<MsgRunning, MsgType>>
\* Invoke() failure without the return of line 94.
InvokeFailedLines_NoReturn ==
  <<MsgRunning, MsgInvoke, MsgRaw, MsgPredicted, MsgPrintTime, MsgInferTime>>
\* Lines 70, 92-95.
InvokeFailedLines == <<MsgRunning, MsgInvoke>>
\* Lines 70, 106-120.
ReportedLines == <<MsgRunning, MsgRaw, MsgPredicted, MsgPrintTime, MsgInferTime>>

\* The request record of an iteration that did not call process_input.
NoRequest ==
  [called |-> FALSE, line |-> <<>>, num_values |-> 0, tensors_read |-> FALSE,
   quantized |-> FALSE, data |-> ZeroArray, invoke |-> "none",
   raw_prediction |-> 0, predicted_integer |-> 0, nul_in_buffer |-> TRUE]

\* One way a request can go: the new globals, the lines written, the record.
Outcome(arr, in_t, lines, r, crashed) ==
  [arr |-> arr, in_t |-> in_t, lines |-> lines, req |-> r, crashed |-> crashed]

\* measure_and_run_model with the quantization loop of lines 86-90 run before
\* the type check of lines 74-77.
measure_and_run_model_QuantizeFirst(arr, r) ==
  LET r1 == [r EXCEPT !.tensors_read = TRUE]
      null == input_tensor = NullTensor
      Data(ts) == [i \in 0..(INT_ARRAY_SIZE - 1) |->
                     Quantize(arr[i], ts[1].params, narrowing)]
      Written(ts) == IF null THEN input_tensor
                     ELSE [input_tensor EXCEPT !.data = Data(ts)]
      R2(ts) == [r1 EXCEPT !.quantized = TRUE, !.data = Data(ts)]
      typed == { x \in TensorsSeen : x[1].type = "kTfLiteInt8"
                                       /\ x[2].type = "kTfLiteInt8" }
      typeError ==
        { Outcome(arr, Written(ts), TypeErrorLines, R2(ts), FALSE) :
            ts \in TensorsSeen \ typed }
      invokeFailed ==
        { Outcome(arr, Written(ts), InvokeFailedLines,
                  [R2(ts) EXCEPT !.invoke = "failed"], FALSE) : ts \in typed }
      reported ==
        { Outcome(arr, Written(x[1]), ReportedLines,
                  [R2(x[1]) EXCEPT
                     !.invoke = "ok",
                     !.raw_prediction = x[2],
                     !.predicted_integer =
                        PredictedInteger(Dequantize(x[2], x[1][2].params))],
                  FALSE) : x \in typed \X RawOutputs }
  IN  typeError \cup invokeFailed \cup reported

\* measure_and_run_model(), lines 68-121, from the input_array arr; r is the
\* request record so far.
measure_and_run_model(arr, r) ==
  LET r1 == [r EXCEPT !.tensors_read = TRUE]
      null == input_tensor = NullTensor
      faulted ==
        IF null
        THEN { Outcome(arr, input_tensor, <<MsgRunning>>, r1, TRUE) }
        ELSE {}
      typeError ==
        { Outcome(arr, input_tensor, TypeErrorLines, r1, FALSE) :
            ts \in { x \in TensorsSeen : x[1].type # "kTfLiteInt8"
                                           \/ x[2].type # "kTfLiteInt8" } }
      typed == { x \in TensorsSeen : x[1].type = "kTfLiteInt8"
                                       /\ x[2].type = "kTfLiteInt8" }
      Data(ts) == [i \in 0..(INT_ARRAY_SIZE - 1) |->
                     Quantize(arr[i], ts[1].params, narrowing)]
      \* a store through the null pointer lands outside the program's data
      Written(ts) == IF null THEN input_tensor
                     ELSE [input_tensor EXCEPT !.data = Data(ts)]
      R2(ts) == [r1 EXCEPT !.quantized = TRUE, !.data = Data(ts)]
      invokeFaulted ==
        IF interpreter = "null"
        THEN { Outcome(arr, Written(ts), <<MsgRunning>>,
                       [R2(ts) EXCEPT !.invoke = "faulted"], TRUE) : ts \in typed }
        ELSE {}
      invokeFailed ==
        { Outcome(arr, Written(ts), InvokeFailedLines,
                  [R2(ts) EXCEPT !.invoke = "failed"], FALSE) : ts \in typed }
      reported ==
        { Outcome(arr, Written(x[1]), ReportedLines,
                  [R2(x[1]) EXCEPT
                     !.invoke = "ok",
                     !.raw_prediction = x[2],
                     !.predicted_integer =
                        PredictedInteger(Dequantize(x[2], x[1][2].params))],
                  FALSE) : x \in typed \X RawOutputs }
  IN  faulted \cup typeError \cup invokeFaulted \cup invokeFailed \cup reported

\* process_input without the early return of line 127.
process_input_NoArityReturn(in_str) ==
  LET res == string_to_array(in_str, input_array)
      r == [NoRequest EXCEPT !.called = TRUE, !.line = in_str,
                             !.num_values = res.num]
  IN  measure_and_run_model(res.arr, r)

\* process_input(), lines 123-131, on the string in_str.
process_input(in_str) ==
  LET res == string_to_array(in_str, input_array)
      r == [NoRequest EXCEPT !.called = TRUE, !.line = in_str,
                             !.num_values = res.num]
  IN  IF res.num # INT_ARRAY_SIZE
      THEN { Outcome(res.arr, input_tensor, ArityErrorLines, r, FALSE) }
      ELSE measure_and_run_model(res.arr, r)

\* ---------------------------------------------------------- the serial peer
RECURSIVE CommaJoin(_)
CommaJoin(fields) ==
  IF Len(fields) = 0 THEN <<>>
  ELSE IF Len(fields) = 1 THEN fields[1]
  ELSE fields[1] \o <<44>> \o CommaJoin(Tail(fields))

Digit(n) == <<48 + n>>

\* 1,2,3,4,5,6,7
L7 == CommaJoin([i \in 1..7 |-> Digit(i)])
\* 1,2,x,4,5,6,7
LX == CommaJoin(<<Digit(1), Digit(2), <<120>>, Digit(4), Digit(5), Digit(6), Digit(7)>>)
\* 1,2,3,4,5,6
L6 == CommaJoin([i \in 1..6 |-> Digit(i)])
\* 1,2,3,4,5,6,
L6Comma == L6 \o <<44>>
\* 1,2,3,4,5,6,-7,8
L8 == CommaJoin(<<Digit(1), Digit(2), Digit(3), Digit(4), Digit(5), Digit(6),
                  <<45, 55>>, Digit(8)>>)
\* 1,,3,4,5,6,7
LEmpty == CommaJoin(<<Digit(1), <<>>, Digit(3), Digit(4), Digit(5), Digit(6), Digit(7)>>)

FreeBytes == {49, 44, 120}
FreeLines == UNION { [1..n -> FreeBytes] : n \in 1..MaxFreeLen }

Bodies == {L7, LX, L6, L6Comma, L8, LEmpty} \cup FreeLines
\* The bodies sent behind a filler run.
AfterPad == {L7, L6}

Pad(n, b) == [k \in 1..n |-> b]

\* Filler runs: 'a' up to, at and beyond the buffer size, and zeros that make
\* L7 or L6 end with the carriage return as byte INPUT_BUFFER_SIZE.
Pads ==
  { Pad(n, 97) : n \in {INPUT_BUFFER_SIZE - 1, 2 * INPUT_BUFFER_SIZE + 1}
                         \cup (INPUT_BUFFER_SIZE..(INPUT_BUFFER_SIZE + MaxOver)) }
  \cup { Pad(INPUT_BUFFER_SIZE - 1 - Len(b), 48) : b \in AfterPad }

\* The peer sends a line as an optional body and a carriage return, each once
\* the receive queue has drained; a filler run only opens the session.
SendPad ==
  /\ pc # "crashed" /\ rx = <<>> /\ sent = "start"
  /\ \E p \in Pads : rx' = p
  /\ sent' = "pad"
  /\ UNCHANGED <<pc, setup_result, narrowing, interpreter, input_tensor,
                 output_tensor, in_str_buff, input_array, in_buff_idx,
                 sinceCR, stored_at, ev, out, req>>

SendBody ==
  /\ pc # "crashed" /\ rx = <<>> /\ sent \in {"start", "none", "pad"}
  /\ \E b \in (IF sent = "pad" THEN AfterPad ELSE Bodies) : rx' = b
  /\ sent' = "body"
  /\ UNCHANGED <<pc, setup_result, narrowing, interpreter, input_tensor,
                 output_tensor, in_str_buff, input_array, in_buff_idx,
                 sinceCR, stored_at, ev, out, req>>

SendCR ==
  /\ pc # "crashed" /\ rx = <<>>
  /\ rx' = <<CR>>
  /\ sent' = "none"
  /\ UNCHANGED <<pc, setup_result, narrowing, interpreter, input_tensor,
                 output_tensor, in_str_buff, input_array, in_buff_idx,
                 sinceCR, stored_at, ev, out, req>>

\* ------------------------------------------------------------------ setup()
\* Lines 30-55.  The schema version of the embedded model, the result of
\* AllocateTensors() and the tensors' types and parameters are the engine's.
setup ==
  /\ pc = "boot"
  /\ pc' = "loop"
  /\ \/ /\ setup_result' = "schema_mismatch"
        /\ UNCHANGED <<interpreter, input_tensor, output_tensor>>
     \/ /\ setup_result' = "alloc_failed"
        /\ interpreter' = "static_interpreter"
        /\ UNCHANGED <<input_tensor, output_tensor>>
     \/ /\ setup_result' = "ok"
        /\ interpreter' = "static_interpreter"
        /\ \E pp \in ModelParams, ti \in TensorTypes, to \in TensorTypes :
             /\ (ti = "kTfLiteInt8" \/ to = "kTfLiteInt8")
             /\ (ti # "kTfLiteInt8" \/ to # "kTfLiteInt8") =>
                   pp = <<Params(1, 32, 0), Params(2, 1, 0)>>
             /\ input_tensor' = InputTensor(ti, pp[1], ZeroArray)
             /\ output_tensor' = OutputTensor(to, pp[2])
  /\ UNCHANGED <<narrowing, in_str_buff, input_array, in_buff_idx, rx, sent,
                 sinceCR, stored_at, ev, out, req>>

\* ------------------------------------------------------------------- loop()
\* The overflow test one byte too late.
Overflowed_Late(idx) == idx > INPUT_BUFFER_SIZE
\* The overflow test one byte too early.
Overflowed_Early(idx) == idx >= INPUT_BUFFER_SIZE - 1

\* Line 143, on the cursor after the increment of line 137.
Overflowed(idx) == idx >= INPUT_BUFFER_SIZE

\* The echo written behind the iteration's other output.
EchoFirst_Last(lines) == lines \o <<Echo>>

\* Line 136: the echo comes before everything else the iteration writes.
EchoFirst(lines) == <<Echo>> \o lines

\* Lines 133-148, one iteration in which Serial.available() is true.  (An
\* iteration without a byte changes nothing.)
loop ==
  /\ pc = "loop" /\ rx # <<>>
  /\ LET received_char == Head(rx)
         stored == [in_str_buff EXCEPT ![in_buff_idx] = received_char]
         idx1 == in_buff_idx + 1
         line == IF sinceCR # <<>> /\ sinceCR[Len(sinceCR)] = CR
                 THEN <<>> ELSE sinceCR
     IN  /\ rx' = Tail(rx)
         /\ sinceCR' = Append(line, received_char)
         /\ stored_at' = in_buff_idx
         /\ IF received_char = CR
            THEN \E adjacent \in AdjacentMemory :
                 \E o \in process_input(CString(stored, adjacent)) :
                   /\ ev' = "cr"
                   /\ out' = EchoFirst(<<NewLine>> \o o.lines)
                   /\ req' = [o.req EXCEPT !.nul_in_buffer = HasNul(stored)]
                   /\ input_array' = o.arr
                   /\ input_tensor' = o.in_t
                   /\ IF o.crashed
                      THEN /\ pc' = "crashed"
                           /\ in_str_buff' = stored
                           /\ in_buff_idx' = idx1
                      ELSE /\ pc' = pc
                           /\ in_str_buff' = memset(stored, INPUT_BUFFER_SIZE)
                           /\ in_buff_idx' = 0
            ELSE /\ ev' = IF Overflowed(idx1) THEN "overflow" ELSE "store"
                 /\ out' = EchoFirst(<<>>)
                 /\ req' = NoRequest
                 /\ in_str_buff' = IF Overflowed(idx1)
                                   THEN memset(stored, INPUT_BUFFER_SIZE) ELSE stored
                 /\ in_buff_idx' = IF Overflowed(idx1) THEN 0 ELSE idx1
                 /\ UNCHANGED <<pc, input_array, input_tensor>>
  /\ UNCHANGED <<setup_result, narrowing, interpreter, output_tensor, sent>>

\* ----------------------------------------------------------- specification
Init ==
  /\ pc = "boot"
  /\ setup_result = "none"
  /\ narrowing \in {"wrap", "saturate"}
  /\ interpreter = "null"
  /\ input_tensor = NullTensor
  /\ output_tensor = NullTensor
  /\ in_str_buff = ZeroBuff
  /\ input_array = ZeroArray
  /\ in_buff_idx = 0
  /\ rx = <<>>
  /\ sent = "start"
  /\ sinceCR = <<>>
  /\ stored_at = 0 - 1
  /\ ev = "none"
  /\ out = <<>>
  /\ req = NoRequest

Next == setup \/ SendPad \/ SendBody \/ SendCR \/ loop

Spec == Init /\ [][Next]_vars

\* ======================================================================
\* Properties
\* ======================================================================

\* ---- vocabulary of the properties: lines, fields and their values
HasComma(s) == \E i \in 1..Len(s) : s[i] = 44
FirstComma(s) == CHOOSE i \in 1..Len(s) : s[i] = 44 /\ \A j \in 1..(i - 1) : s[j] # 44

\* The comma-delimited fields of a line, the empty ones included.
RECURSIVE SplitOnComma(_)
SplitOnComma(s) ==
  IF ~HasComma(s) THEN << s >>
  ELSE << SubSeq(s, 1, FirstComma(s) - 1) >>
         \o SplitOnComma(SubSeq(s, FirstComma(s) + 1, Len(s)))

NonEmptyFields(s) == SelectSeq(SplitOnComma(s), LAMBDA f : f # <<>>)

\* A line without its terminating carriage return.
StripCR(s) ==
  IF s # <<>> /\ s[Len(s)] = CR THEN SubSeq(s, 1, Len(s) - 1) ELSE s

RECURSIVE Pow10(_)
Pow10(k) == IF k = 0 THEN 1 ELSE 10 * Pow10(k - 1)

RECURSIVE SumTo(_, _)
SumTo(F(_), n) == IF n = 0 THEN 0 ELSE F(n) + SumTo(F, n - 1)

\* The number a field starts with: white space, an optional sign and the
\* longest run of decimal digits (its leading zeros carry no value); 0 when
\* that run is empty.
LeadingInt(f) ==
  LET w == CHOOSE k \in 0..Len(f) :
             /\ \A i \in 1..k : IsSpace(f[i])
             /\ (k = Len(f) \/ ~IsSpace(f[k + 1]))
      sg == IF w < Len(f) /\ f[w + 1] \in {43, 45} THEN 1 ELSE 0
      b == w + sg
      d == CHOOSE k \in 0..(Len(f) - b) :
             /\ \A i \in 1..k : IsDigit(f[b + i])
             /\ (b + k = Len(f) \/ ~IsDigit(f[b + k + 1]))
      z == CHOOSE k \in 0..d :
             /\ \A i \in 1..k : f[b + i] = 48
             /\ (k = d \/ f[b + k + 1] # 48)
      Term(i) == (f[b + z + i] - 48) * Pow10(d - z - i)
      v == SumTo(Term, d - z)
  IN  IF sg = 1 /\ f[w + 1] = 45 THEN 0 - v ELSE v

\* A field that is a base-10 signed integer: an optional sign and digits.
IsInteger(f) ==
  LET sg == IF f # <<>> /\ f[1] \in {43, 45} THEN 1 ELSE 0
  IN  Len(f) > sg /\ \A i \in (sg + 1)..Len(f) : IsDigit(f[i])

\* The Serial lines of an iteration behind the echo and its line break.
Messages(o) == SelectSeq(o, LAMBDA l : l \notin {Echo, NewLine})
ReportLines == {MsgRaw, MsgPredicted, MsgPrintTime, MsgInferTime}
Wrote(l) == \E i \in 1..Len(out) : out[i] = l

\* The iteration just run read a carriage return and returned.
Completed == ev = "cr" /\ pc # "crashed"
ArityRejected == Completed /\ Messages(out) = <<MsgArity>> /\ req.invoke = "none"

\* ---- C1
\* C1 as stated: every line handed to process_input whose number of
\* comma-separated tokens is not exactly 7, fewer or more, is rejected with
\* the "exactly 7 integers" line and Invoke() is not called.
C1_RejectsEveryOtherCount ==
  (ev = "cr" /\ setup_result = "ok" /\ req.called
     /\ Len(NonEmptyFields(req.line)) # INT_ARRAY_SIZE)
    => (Wrote(MsgArity) /\ req.invoke = "none")

\* C1 amended: a line from which fewer than 7 tokens are extracted is rejected
\* with the "exactly 7 integers" line, without touching the tensors or calling
\* Invoke(); a line with 7 or more tokens is not rejected: extraction stops
\* at the 7th token and the request goes on to measure_and_run_model.
C1_RejectsFewerThanSeven ==
  (ev = "cr" /\ req.called) =>
    /\ Len(NonEmptyFields(req.line)) < INT_ARRAY_SIZE =>
         /\ Messages(out) = <<MsgArity>>
         /\ req.invoke = "none" /\ ~req.tensors_read /\ ~req.quantized
    /\ Len(NonEmptyFields(req.line)) >= INT_ARRAY_SIZE =>
         /\ ~Wrote(MsgArity)
         /\ req.num_values = INT_ARRAY_SIZE /\ req.tensors_read

C1_Witness ==
  /\ ev = "cr" /\ req.called
  /\ sinceCR = L6 \o <<CR>>
  /\ Messages(out) = <<MsgArity>>

\* ---- C2
\* C2: after any run of more than 64 bytes without a carriage return the
\* accumulator is empty with cursor 0, and the line 1,2,3,4,5,6,7 sent right
\* behind such a run is tokenized to exactly its own 7 values.
C2_OverflowRecovery ==
  /\ (ev \in {"store", "overflow"} /\ setup_result = "ok"
        /\ Len(sinceCR) > INPUT_BUFFER_SIZE)
       => (in_buff_idx = 0 /\ in_str_buff = ZeroBuff)
  /\ \A p \in Pads :
       (Completed /\ setup_result = "ok"
          /\ Len(p) > INPUT_BUFFER_SIZE /\ sinceCR = p \o L7 \o <<CR>>)
         => /\ req.num_values = INT_ARRAY_SIZE
            /\ input_array = [i \in 0..(INT_ARRAY_SIZE - 1) |-> i + 1]
            /\ \A i \in 1..Len(req.line) : req.line[i] # p[1]

\* ---- C3
\* C3: a line of 64 or more bytes before its carriage return produces nothing
\* but the echo: process_input is not called, no error line and no report is
\* written, and the engine is not invoked.
C3_LongLineSilent ==
  (ev = "cr" /\ setup_result = "ok" /\ Len(sinceCR) - 1 >= INPUT_BUFFER_SIZE)
    => (~req.called /\ Messages(out) = <<>> /\ req.invoke = "none")

\* ---- C4
\* C4: once setup() has failed no request ever reads input_tensor or
\* output_tensor and none calls Invoke().
C4_NotReadyRejects ==
  setup_result \in {"schema_mismatch", "alloc_failed"}
    => (~req.tensors_read /\ req.invoke = "none")

\* ---- C5
ErrorLines == {MsgArity, MsgType, MsgInvoke}
Failed == Completed /\ req.called /\ req.invoke # "ok"

\* C5 as stated: every failed request writes exactly one line behind the
\* echo, and no report line.
C5_SingleLineOnFailure ==
  (Failed /\ setup_result = "ok") =>
    /\ Len(Messages(out)) = 1
    /\ \A l \in ReportLines : ~Wrote(l)

\* C5 amended: every failed request writes exactly one error line and none of
\* the report lines; an arity error writes that line alone, a tensor-type
\* error and an Invoke() failure write it behind "Running inference...".
C5_OneErrorLineOnFailure ==
  Failed =>
    /\ \A l \in ReportLines : ~Wrote(l)
    /\ Len(SelectSeq(out, LAMBDA l : l \in ErrorLines)) = 1
    /\ Messages(out) =
         IF req.num_values # INT_ARRAY_SIZE THEN <<MsgArity>>
         ELSE IF req.invoke = "failed" THEN <<MsgRunning, MsgInvoke>>
         ELSE <<MsgRunning, MsgType>>

C5_Witness ==
  /\ Failed /\ setup_result = "ok"
  /\ req.tensors_read /\ ~req.quantized
  /\ Messages(out) = <<MsgRunning, MsgType>>

\* ---- C6
\* C6: report lines are written only by a request whose Invoke() returned OK,
\* and such a request writes the four of them in the order raw float,
\* predicted integer, printing time, inference time.
C6_ReportOnlyAfterInvokeOk ==
  /\ (\E l \in ReportLines : Wrote(l)) => (ev = "cr" /\ req.invoke = "ok")
  /\ req.invoke = "ok" =>
       SelectSeq(out, LAMBDA l : l \in ReportLines)
         = <<MsgRaw, MsgPredicted, MsgPrintTime, MsgInferTime>>

C6_Witness ==
  /\ Completed /\ setup_result = "ok" /\ req.invoke = "ok"
  /\ Wrote(MsgInferTime)

\* ---- C7
\* C7: an iteration that read a carriage return ends, whatever the request's
\* outcome, with the line buffer all zero and in_buff_idx = 0.
C7_ResetAfterCR ==
  Completed => (in_str_buff = ZeroBuff /\ in_buff_idx = 0)

C7_Witness ==
  /\ Completed /\ req.invoke = "failed"
  /\ Len(sinceCR) = INPUT_BUFFER_SIZE
  /\ in_buff_idx = 0

\* ---- C8
\* C8 as stated: every comma-delimited field of the line, the empty ones
\* included, yields one token (up to 7), whose value is the field's when the
\* field is a base-10 signed integer and 0 otherwise.
C8_EveryFieldOneToken ==
  (ev = "cr" /\ req.called) =>
    LET fs == SplitOnComma(StripCR(req.line))
        n == Min(INT_ARRAY_SIZE, Len(fs))
    IN  /\ req.num_values = n
        /\ \A i \in 1..n :
             input_array[i - 1] = IF IsInteger(fs[i]) THEN LeadingInt(fs[i]) ELSE 0

\* C8 amended: every non-empty comma-delimited field of the scanned string
\* (the carriage return included), up to the first 7, yields one token and an
\* empty field yields none; a token's value is the integer its field starts
\* with, 0 when it starts with none; 1,2,x,4,5,6,7 is accepted with 7 tokens,
\* the third equal to 0.
C8_NonEmptyFieldsOneToken ==
  (ev = "cr" /\ req.called) =>
    LET fs == NonEmptyFields(req.line)
        n == Min(INT_ARRAY_SIZE, Len(fs))
    IN  /\ req.num_values = n
        /\ \A i \in 1..n : input_array[i - 1] = LeadingInt(fs[i])
        /\ sinceCR = LX \o <<CR>> =>
             /\ req.num_values = INT_ARRAY_SIZE /\ ~Wrote(MsgArity)
             /\ input_array[2] = 0

C8_Witness ==
  /\ ev = "cr" /\ req.called
  /\ sinceCR = LX \o <<CR>>
  /\ req.num_values = INT_ARRAY_SIZE /\ input_array[2] = 0

\* ---- C9
\* A line of exactly 7 base-10 signed integers.
IsSevenIntegerLine(l) ==
  LET fs == SplitOnComma(l)
  IN  Len(fs) = INT_ARRAY_SIZE /\ \A i \in 1..INT_ARRAY_SIZE : IsInteger(fs[i])

\* C9: with the model loaded, a 7-integer line sent after any earlier traffic
\* that left the accumulator reset (lines, or an overflowed run) takes the
\* path, and writes the quantized values, that the line alone determines.
C9_SameLineSameResult ==
  \A h \in {0, INPUT_BUFFER_SIZE} :
    LET l == SubSeq(sinceCR, h + 1, Len(sinceCR) - 1)
        fs == SplitOnComma(l)
        typed == input_tensor.type = "kTfLiteInt8" /\ output_tensor.type = "kTfLiteInt8"
    IN  (ev = "cr" /\ setup_result = "ok" /\ Len(sinceCR) > h
           /\ Len(l) < INPUT_BUFFER_SIZE /\ IsSevenIntegerLine(l))
        => /\ req.called /\ req.num_values = INT_ARRAY_SIZE /\ ~Wrote(MsgArity)
           /\ input_array = [i \in 0..(INT_ARRAY_SIZE - 1) |-> LeadingInt(fs[i + 1])]
           /\ req.quantized = typed
           /\ typed =>
                input_tensor.data =
                  [i \in 0..(INT_ARRAY_SIZE - 1) |->
                     Quantize(LeadingInt(fs[i + 1]), input_tensor.params, narrowing)]

\* The same line after an overflowed run and other lines.
C9_Witness ==
  /\ Completed /\ setup_result = "ok" /\ req.quantized
  /\ sinceCR = Pad(INPUT_BUFFER_SIZE, 97) \o L7 \o <<CR>>

\* ---- C10
Abs(x) == IF x < 0 THEN 0 - x ELSE x

\* C10: for the quantized value q of every input x, with the input tensor's
\* (scale, zero_point), |(q - zero_point) * scale - x| <= scale.
C10_RoundTrip ==
  (ev = "cr" /\ setup_result = "ok" /\ req.quantized) =>
    LET p == input_tensor.params
    IN  \A i \in 0..(INT_ARRAY_SIZE - 1) :
          Abs((req.data[i] - p.zero_point) * p.num - input_array[i] * p.den) <= p.num

\* ---- C11
\* The integer nearest to the fraction f, a tie going away from zero.
NearestInteger(f) ==
  CHOOSE r \in (0 - 600)..600 :
    /\ 2 * Abs(f.num - r * f.den) <= f.den
    /\ 2 * Abs(f.num - r * f.den) = f.den => Abs(r) * f.den > Abs(f.num)

Clamp(r) == IF r < 0 - 128 THEN 0 - 128 ELSE IF r > 127 THEN 127 ELSE r

\* C11: the predicted integer of a report is round((raw - zero_point) * scale)
\* for the raw output and the output tensor's parameters, clamped into
\* [-128, 127]; no predicted integer is ever outside [-128, 127].
C11_PredictionRoundedAndClamped ==
  /\ req.predicted_integer \in (0 - 128)..127
  /\ (ev = "cr" /\ setup_result = "ok" /\ req.invoke = "ok") =>
       LET p == output_tensor.params
           y == [num |-> (req.raw_prediction - p.zero_point) * p.num, den |-> p.den]
       IN  req.predicted_integer = Clamp(NearestInteger(y))

\* A report whose rounded value 200 was clamped.
C11_Witness ==
  /\ Completed /\ setup_result = "ok" /\ req.invoke = "ok"
  /\ req.raw_prediction = 100 /\ output_tensor.params = Params(2, 1, 0)
  /\ req.predicted_integer = 127

\* ---- C12
\* C12: the string handed to the tokenizer never holds the carriage return
\* (byte 13), so 1,2,3,4,5,6, followed by CR yields 6 tokens.
C12_TerminatorNotTokenized ==
  (ev = "cr" /\ setup_result = "ok" /\ req.called) =>
    /\ \A i \in 1..Len(req.line) : req.line[i] # CR
    /\ sinceCR = L6Comma \o <<CR>> => req.num_values = 6

\* ---- C13
\* The bytes of the buffer up to the one just stored are the last bytes read.
Appended ==
  /\ ev = "store" /\ in_buff_idx = stored_at + 1
  /\ \A i \in 0..stored_at :
       in_str_buff[i] = sinceCR[Len(sinceCR) - stored_at + i]

\* C13 as stated: a byte other than CR read with cursor < 64, cursor 63
\* included, is appended without a reset, and the buffer is discarded only by
\* a byte read with the cursor at 64.
C13_AppendBelowCapacity ==
  (ev \in {"store", "overflow"} /\ setup_result = "ok") =>
    /\ stored_at < INPUT_BUFFER_SIZE => Appended
    /\ ev = "overflow" => stored_at = INPUT_BUFFER_SIZE

\* C13 amended: a byte other than CR read with cursor < 63 is appended without
\* a reset; a byte read with cursor = 63 is stored as the 64th byte and the
\* buffer is discarded in that same iteration; the cursor is never 64 when a
\* byte is read.
C13_DiscardAtSixtyFourthByte ==
  ev \in {"store", "overflow"} =>
    /\ stored_at \in 0..(INPUT_BUFFER_SIZE - 1)
    /\ stored_at < INPUT_BUFFER_SIZE - 1 => Appended
    /\ stored_at = INPUT_BUFFER_SIZE - 1 =>
         (ev = "overflow" /\ in_buff_idx = 0 /\ in_str_buff = ZeroBuff)

C13_Witness ==
  /\ ev = "overflow" /\ stored_at = INPUT_BUFFER_SIZE - 1
  /\ in_buff_idx = 0

\* ---- C14
\* C14: between iterations of loop() 0 <= in_buff_idx < 64, and every byte read
\* is stored in in_str_buff at an index in 0..63.
C14_CursorInRange ==
  /\ pc # "crashed" => in_buff_idx \in 0..(INPUT_BUFFER_SIZE - 1)
  /\ ev # "none" => stored_at \in 0..(INPUT_BUFFER_SIZE - 1)

C14_Witness ==
  /\ ev = "store" /\ in_buff_idx = INPUT_BUFFER_SIZE - 1
  /\ stored_at = INPUT_BUFFER_SIZE - 2

\* ---- C15
\* A step of loop() that took a byte from the receive queue.
ReadsByte == pc = "loop" /\ rx # <<>> /\ rx' # rx

\* C15: an iteration takes exactly one byte from the serial link and echoes it
\* exactly once, before anything else it writes, whether the byte is stored,
\* overflows the buffer or completes the line.
C15_EchoOncePerByte ==
  [][ReadsByte =>
       /\ rx' = Tail(rx)
       /\ sinceCR'[Len(sinceCR')] = Head(rx)
       /\ out' # <<>> /\ out'[1] = Echo
       /\ Len(SelectSeq(out', LAMBDA l : l = Echo)) = 1]_vars

C15_Witness ==
  /\ Completed /\ req.invoke = "ok"
  /\ Len(out) > 2 /\ out[1] = Echo /\ out[2] = NewLine

\* ---- C16
\* C16: string_to_array returns a count in 0..7 and keeps input_array to its
\* 7 elements; of a line with more than 7 tokens it stores the first 7 and
\* nothing of the rest.
C16_StopsAtSeven ==
  (ev = "cr" /\ req.called) =>
    LET fs == NonEmptyFields(req.line)
    IN  /\ req.num_values \in 0..INT_ARRAY_SIZE
        /\ DOMAIN input_array = 0..(INT_ARRAY_SIZE - 1)
        /\ Len(fs) > INT_ARRAY_SIZE =>
             /\ req.num_values = INT_ARRAY_SIZE
             /\ \A i \in 0..(INT_ARRAY_SIZE - 1) : input_array[i] = LeadingInt(fs[i + 1])

C16_Witness ==
  /\ ev = "cr" /\ req.called
  /\ sinceCR = L8 \o <<CR>>
  /\ req.num_values = INT_ARRAY_SIZE /\ input_array[6] = 0 - 7

\* ---- C17
\* A step of loop() that read a carriage return.
ReadsCR == pc = "loop" /\ rx # <<>> /\ Head(rx) = CR /\ rx' = Tail(rx)

\* C17: a request that ends in the arity error or the tensor-type error leaves
\* the input tensor as it was and does not call Invoke(); the input tensor is
\* written only by a request that passed both checks.
C17_FailedChecksLeaveTensor ==
  [][ReadsCR =>
       LET early == \E i \in 1..Len(out') : out'[i] \in {MsgArity, MsgType}
       IN  /\ early => (input_tensor' = input_tensor /\ req'.invoke = "none"
                          /\ ~req'.quantized)
           /\ input_tensor' # input_tensor =>
                /\ req'.num_values = INT_ARRAY_SIZE /\ req'.quantized
                /\ input_tensor.type = "kTfLiteInt8"
                /\ output_tensor.type = "kTfLiteInt8"]_vars

\* An arity error behind an accepted request: the tensor keeps its values.
C17_Witness ==
  /\ Completed /\ Wrote(MsgArity)
  /\ input_tensor # NullTensor /\ input_tensor.data # ZeroArray

\* ---- C18
\* C18: whenever process_input runs, in_str_buff holds a zero byte at some
\* index in 0..63, also when the carriage return is the 64th byte stored.
C18_BufferTerminated ==
  (ev = "cr" /\ setup_result = "ok" /\ req.called) => req.nul_in_buffer

====
